---- MODULE Spec2Model ----
(***************************************************************************)
(* Model of the object commands of anytype_rs:                             *)
(*   src/api/client/objects.rs   the object resource client, with the      *)
(*                               pagination loop                           *)
(*                               list_all_objects_with_pagination          *)
(*   src/cli/commands/objects.rs the CLI command layer                     *)
(* One behaviour is one invocation: Init draws the command and its         *)
(* arguments, the actions are the steps of the invocation between two      *)
(* await points, and the transport (the HTTP server behind self.get,       *)
(* self.post, ...) is the environment, free to answer every request with   *)
(* any page or with a failure.                                             *)
(***************************************************************************)
EXTENDS Integers, Sequences, FiniteSets, TLC

(* ------------------------------ bounds -------------------------------- *)
\* largest --limit drawn
MaxLimit == 3
\* largest number of objects the server puts in one page
MaxPageLen == 2
\* largest number of objects the server hands out over one invocation
MaxItems == 4
\* largest pagination.total the server reports
MaxTotal == 4
\* pages_fetched only feeds the debug log; it is counted up to this value
MaxPages == 3
\* longest --properties string drawn
MaxPropsLen == 3

(* ------------------------------ inputs -------------------------------- *)
\* Option::None of an Option<usize> / Option<u32>
None == -1
Ids == {"a", "b"}
Spaces == {"s1", "s2"}
ObjectId == "o1"
\* the characters --properties strings are drawn from
Chars == {"{", "}", "[", "]", "1", ","}

Max(a, b) == IF a > b THEN a ELSE b

RECURSIVE SeqsUpTo(_, _)
SeqsUpTo(S, n) ==
  IF n = 0 THEN {<<>>}
  ELSE LET shorter == SeqsUpTo(S, n - 1)
       IN  shorter \cup {Append(s, x) : s \in {t \in shorter : Len(t) = n - 1}, x \in S}

NoProps == [present |-> FALSE, text |-> <<>>]
SomeProps(t) == [present |-> TRUE, text |-> t]
PropsInputs == {NoProps} \cup {SomeProps(t) : t \in SeqsUpTo(Chars, MaxPropsLen)}

VARIABLES
  command,        \* the invocation: a CLI subcommand or a direct client call
  api_key,        \* what config::load_api_key yields: "some", "none", "err"
  space_id,       \* argument
  limit,          \* argument: None or a number
  offset,         \* argument of list_objects_with_pagination: None or a number
  properties,     \* argument --properties of create / update
  pc,             \* position of the invocation
  current_offset, \* locals of list_all_objects_with_pagination
  all_objects,
  has_more,
  pages_fetched,
  total,          \* pagination.total of the page last received
  inflight,       \* requests handed to the transport and not yet answered
  sent,           \* history: a request has been handed to the transport
  received,       \* history: the objects of all pages received, in order
  last_offset,    \* history: the offset of the last page request (None: none yet)
  failures,       \* history: number of requests the transport failed (0 or 1)
  largest_page,   \* history: the length of the longest page received
  result          \* what the invocation returned

vars == <<command, api_key, space_id, limit, offset, properties, pc,
          current_offset, all_objects, has_more, pages_fetched, total,
          inflight, sent, received, last_offset, failures, largest_page,
          result>>

args == <<command, api_key, space_id, limit, offset, properties>>
locals == <<current_offset, all_objects, has_more, pages_fetched, total>>

(* --------------------------- pure functions --------------------------- *)

\* format!("limit={}", limit) and format!("offset={}", offset)
QueryParams(lim, off) ==
  (IF lim # None THEN <<"limit=" \o ToString(lim)>> ELSE <<>>)
  \o (IF off # None THEN <<"offset=" \o ToString(off)>> ELSE <<>>)

\* query_params.join("&")
RECURSIVE Join(_)
Join(ps) ==
  IF ps = <<>> THEN ""
  ELSE IF Len(ps) = 1 THEN ps[1]
  ELSE ps[1] \o "&" \o Join(Tail(ps))

\* a slip: the '?' is pushed whether or not there is a parameter
ListUrlAlwaysQuery(space, lim, off) ==
  "/v1/spaces/" \o space \o "/objects" \o "?" \o Join(QueryParams(lim, off))

\* the url list_objects_with_pagination requests
ListUrl(space, lim, off) ==
  LET url == "/v1/spaces/" \o space \o "/objects"
      query_params == QueryParams(lim, off)
  IN  IF query_params # <<>> THEN url \o "?" \o Join(query_params) ELSE url

\* the url of get_object, update_object and delete_object
ObjectUrl(space, id) == "/v1/spaces/" \o space \o "/objects/" \o id

\* the url of create_object
CreateUrl(space) == "/v1/spaces/" \o space \o "/objects"

Request(method, url) == [method |-> method, url |-> url]

Ok(objects) == [status |-> "ok", objects |-> objects]
Err(kind) == [status |-> kind, objects |-> <<>>]
Pending == [status |-> "pending", objects |-> <<>>]


(* serde_json::from_str::<Value>(&props_str), on strings over Chars: one   *)
(* JSON value and nothing after it.  Over Chars a value is a number (a run *)
(* of digits), the empty object (a member needs a string key), or an array *)
(* of values separated by commas.  ParseValue and ParseElems return the    *)
(* position after what they read, 0 when the text is malformed.            *)
RECURSIVE SkipDigits(_, _)
SkipDigits(s, i) ==
  IF i <= Len(s) /\ s[i] = "1" THEN SkipDigits(s, i + 1) ELSE i

RECURSIVE ParseValue(_, _), ParseElems(_, _)
ParseValue(s, i) ==
  IF i > Len(s) THEN 0
  ELSE CASE s[i] = "1" -> SkipDigits(s, i + 1)
         [] s[i] = "{" -> IF i + 1 <= Len(s) /\ s[i + 1] = "}" THEN i + 2 ELSE 0
         [] s[i] = "[" -> IF i + 1 <= Len(s) /\ s[i + 1] = "]" THEN i + 2
                          ELSE ParseElems(s, i + 1)
         [] OTHER -> 0

ParseElems(s, i) ==
  LET j == ParseValue(s, i)
  IN  IF j = 0 \/ j > Len(s) THEN 0
      ELSE IF s[j] = "]" THEN j + 1
      ELSE IF s[j] = "," THEN ParseElems(s, j + 1)
      ELSE 0

FromStrOk(s) == ParseValue(s, 1) = Len(s) + 1

\* the properties of the request, or the parse failure: create_object sends
\* json!({}) and update_object sends None when --properties is absent
PropertiesOk(props) == ~props.present \/ FromStrOk(props.text)

\* a slip: the missing credential is not turned into a failure
AuthenticatedAlways(key) == TRUE

\* load_api_key()?.ok_or_else(|| anyhow!("Not authenticated. ..."))?
Authenticated(key) == key = "some"

(* ------------------ list_all_objects_with_pagination ------------------ *)

\* a slip: the page replaces what was accumulated
ExtendReplace(all, objects) == objects

\* all_objects.extend(objects)
Extend(all, objects) == all \o objects

\* a slip: the offset counts pages, not objects
AdvanceByOne(off, objects_len) == off + 1

\* current_offset += objects_len
Advance(off, objects_len) == off + objects_len

\* all_objects.len() >= limit.unwrap_or(usize::MAX): a Vec never holds
\* usize::MAX objects, so without a limit the comparison is false
ReachedLimit(all, lim) == lim # None /\ Len(all) >= lim

\* a slip: the guard on pagination.total is missing
ShouldBreakNoTotal(all, lim, hm, off, tot) ==
  ReachedLimit(all, lim) \/ ~hm

\* a slip: the limit is compared with > instead of >=
ShouldBreakStrictLimit(all, lim, hm, off, tot) ==
  (lim # None /\ Len(all) > lim) \/ ~hm \/ off >= tot

\* the condition of the break at the end of the loop body
ShouldBreak(all, lim, hm, off, tot) ==
  ReachedLimit(all, lim) \/ ~hm \/ off >= tot

\* a slip: the loop runs on the offset and the limit alone
LoopAgainOffsetOnly(all, lim, hm, off, tot) ==
  ~ReachedLimit(all, lim) /\ off < tot

\* another iteration is entered: no break, and the while condition holds
LoopAgain(all, lim, hm, off, tot) ==
  ~ShouldBreak(all, lim, hm, off, tot) /\ hm

\* Ok(all_objects)
ReturnAll(all) == Ok(all)

\* a slip: a failed page ends the loop with what was accumulated
ReturnFetchErrorPartial(all) == Ok(all)

\* the ? after .await: the error is returned, all_objects is dropped
ReturnFetchError(all) == Err("transport")

\* pages_fetched += 1, counted up to MaxPages
Bump(n) == IF n < MaxPages THEN n + 1 ELSE n

(* ------------------------------- states ------------------------------- *)

CliCommands == {"list", "get", "create", "update", "delete"}
ApiCalls == {"list_objects", "list_objects_with_pagination"}
Limits == {None} \cup 0..MaxLimit

Init ==
  /\ command \in CliCommands \cup ApiCalls
  /\ api_key \in (IF command \in CliCommands THEN {"some", "none", "err"} ELSE {"some"})
  /\ space_id \in Spaces
  /\ limit \in (IF command \in {"list", "list_objects_with_pagination"} THEN Limits ELSE {None})
  /\ offset \in (IF command = "list_objects_with_pagination" THEN Limits ELSE {None})
  /\ properties \in (IF command \in {"create", "update"} THEN PropsInputs ELSE {NoProps})
  /\ pc = "start"
  /\ current_offset = 0
  /\ all_objects = <<>>
  /\ has_more = TRUE
  /\ pages_fetched = 0
  /\ total = 0
  /\ inflight = {}
  /\ sent = FALSE
  /\ received = <<>>
  /\ last_offset = None
  /\ failures = 0
  /\ largest_page = 0
  /\ result = Pending

\* self.get / self.post / self.patch / self.delete (&url) up to its await
Send(req) ==
  /\ inflight' = inflight \cup {req}
  /\ sent' = TRUE

(* ------------------------------ CLI layer ----------------------------- *)

\* handle_objects_command without a stored credential: load_api_key fails
\* (the first ?) or yields None (the "Not authenticated" error)
CliNotAuthenticated ==
  /\ pc = "start"
  /\ command \in CliCommands
  /\ ~Authenticated(api_key)
  /\ pc' = "error"
  /\ result' = Err(IF api_key = "none" THEN "auth" ELSE "config")
  /\ UNCHANGED <<args, largest_page, locals, inflight, sent, received, last_offset, failures>>

\* objects list: list_objects enters list_all_objects_with_pagination, which
\* initialises its locals and, has_more being true, requests the first page
CliList ==
  /\ pc = "start"
  /\ command = "list"
  /\ Authenticated(api_key)
  /\ current_offset' = 0
  /\ all_objects' = <<>>
  /\ has_more' = TRUE
  /\ pages_fetched' = 0
  /\ Send(Request("GET", ListUrl(space_id, limit, 0)))
  /\ last_offset' = 0
  /\ pc' = "await"
  /\ UNCHANGED <<args, largest_page, total, received, failures, result>>

\* objects get
CliGet ==
  /\ pc = "start"
  /\ command = "get"
  /\ Authenticated(api_key)
  /\ Send(Request("GET", ObjectUrl(space_id, ObjectId)))
  /\ pc' = "await"
  /\ UNCHANGED <<args, largest_page, locals, received, last_offset, failures, result>>

\* objects delete
CliDelete ==
  /\ pc = "start"
  /\ command = "delete"
  /\ Authenticated(api_key)
  /\ Send(Request("DELETE", ObjectUrl(space_id, ObjectId)))
  /\ pc' = "await"
  /\ UNCHANGED <<args, largest_page, locals, received, last_offset, failures, result>>

\* objects create / objects update whose --properties is not JSON
CliParseError ==
  /\ pc = "start"
  /\ command \in {"create", "update"}
  /\ Authenticated(api_key)
  /\ ~PropertiesOk(properties)
  /\ pc' = "error"
  /\ result' = Err("parse")
  /\ UNCHANGED <<args, largest_page, locals, inflight, sent, received, last_offset, failures>>

\* objects create
CliCreate ==
  /\ pc = "start"
  /\ command = "create"
  /\ Authenticated(api_key)
  /\ PropertiesOk(properties)
  /\ Send(Request("POST", CreateUrl(space_id)))
  /\ pc' = "await"
  /\ UNCHANGED <<args, largest_page, locals, received, last_offset, failures, result>>

\* objects update
CliUpdate ==
  /\ pc = "start"
  /\ command = "update"
  /\ Authenticated(api_key)
  /\ PropertiesOk(properties)
  /\ Send(Request("PATCH", ObjectUrl(space_id, ObjectId)))
  /\ pc' = "await"
  /\ UNCHANGED <<args, largest_page, locals, received, last_offset, failures, result>>

(* ---------------------------- direct calls ---------------------------- *)

\* AnytypeClient::list_objects(space_id)
ApiListObjects ==
  /\ pc = "start"
  /\ command = "list_objects"
  /\ Send(Request("GET", ListUrl(space_id, None, None)))
  /\ pc' = "await"
  /\ UNCHANGED <<args, largest_page, locals, received, last_offset, failures, result>>

\* AnytypeClient::list_objects_with_pagination(space_id, limit, offset)
ApiListObjectsWithPagination ==
  /\ pc = "start"
  /\ command = "list_objects_with_pagination"
  /\ Send(Request("GET", ListUrl(space_id, limit, offset)))
  /\ pc' = "await"
  /\ UNCHANGED <<args, largest_page, locals, received, last_offset, failures, result>>

(* ----------------------------- transport ------------------------------ *)

Pages == SeqsUpTo(Ids, MaxPageLen)

\* one iteration of the loop of list_all_objects_with_pagination, from the
\* response of the page request to the next page request or the return
ReceivePage(objects, page_has_more, page_total) ==
  /\ pc = "await"
  /\ command = "list"
  /\ inflight # {}
  /\ Len(received) + Len(objects) <= MaxItems
  /\ LET offset1 == IF objects # <<>> THEN Advance(current_offset, Len(objects))
                    ELSE current_offset
         all1 == IF objects # <<>> THEN Extend(all_objects, objects) ELSE all_objects
         again == LoopAgain(all1, limit, page_has_more, offset1, page_total)
     IN  /\ has_more' = page_has_more
         /\ pages_fetched' = Bump(pages_fetched)
         /\ total' = page_total
         /\ current_offset' = offset1
         /\ all_objects' = all1
         /\ received' = received \o objects
         /\ largest_page' = Max(largest_page, Len(objects))
         /\ IF again
            THEN /\ inflight' = {Request("GET", ListUrl(space_id, limit, offset1))}
                 /\ last_offset' = offset1
                 /\ pc' = "await"
                 /\ result' = result
            ELSE /\ inflight' = {}
                 /\ last_offset' = last_offset
                 /\ pc' = "done"
                 /\ result' = ReturnAll(all1)
  /\ UNCHANGED <<args, sent, failures>>

\* the response of a single listing request
ReceiveList(objects) ==
  /\ pc = "await"
  /\ command \in ApiCalls
  /\ inflight # {}
  /\ inflight' = {}
  /\ received' = received \o objects
  /\ pc' = "done"
  /\ result' = Ok(objects)
  /\ UNCHANGED <<args, largest_page, locals, sent, last_offset, failures>>

\* the response of get, create, update or delete
ReceiveObject ==
  /\ pc = "await"
  /\ command \in {"get", "create", "update", "delete"}
  /\ inflight # {}
  /\ inflight' = {}
  /\ pc' = "done"
  /\ result' = Ok(<<>>)
  /\ UNCHANGED <<args, largest_page, locals, sent, received, last_offset, failures>>

\* the transport fails the outstanding request
TransportError ==
  /\ pc = "await"
  /\ inflight # {}
  /\ inflight' = {}
  /\ failures' = failures + 1
  /\ pc' = "error"
  /\ result' = ReturnFetchError(all_objects)
  /\ UNCHANGED <<args, largest_page, locals, sent, received, last_offset>>

Next ==
  \/ CliNotAuthenticated
  \/ CliList
  \/ CliGet
  \/ CliDelete
  \/ CliParseError
  \/ CliCreate
  \/ CliUpdate
  \/ ApiListObjects
  \/ ApiListObjectsWithPagination
  \/ \E objects \in Pages, hm \in BOOLEAN, tot \in 0..MaxTotal :
       ReceivePage(objects, hm, tot)
  \/ \E objects \in Pages : ReceiveList(objects)
  \/ ReceiveObject
  \/ TransportError

Spec == Init /\ [][Next]_vars

\* the transport answers every request, and the invocation runs on
LiveSpec == Spec /\ WF_vars(Next)

(* ------------------------------- claims ------------------------------- *)

Listing == command = "list"
Returned == pc = "done"

\* the listing path of the space, written out
ListingPath == "/v1/spaces/" \o space_id \o "/objects"

\* the url a listing request with these parameters is expected to carry
ExpectedListUrl(lim, off) ==
  CASE lim = None /\ off = None -> ListingPath
    [] lim # None /\ off = None -> ListingPath \o "?limit=" \o ToString(lim)
    [] lim = None /\ off # None -> ListingPath \o "?offset=" \o ToString(off)
    [] lim # None /\ off # None ->
         ListingPath \o "?limit=" \o ToString(lim) \o "&offset=" \o ToString(off)

\* C1: a listing without a limit whose pages add up to the reported total and
\* whose last page has has_more = false returns exactly the objects of its
\* pages, in page order, each once.
C1_ExactConcatenation ==
  (Listing /\ Returned /\ limit = None /\ Len(received) = total /\ ~has_more)
    => result = Ok(received)

C1_Witness ==
  /\ Listing /\ Returned /\ limit = None
  /\ Len(received) = total /\ ~has_more
  /\ pages_fetched >= 2 /\ Len(received) >= 3
  /\ result = Ok(received)

\* C2: with a limit of N and more than N objects in the space the listing
\* returns exactly the first N objects, in page order, whatever the page
\* sizes.  Stated for the runs in which the server reports a total above N,
\* has handed out more than N objects and never sent a page longer than N.
C2_FirstNItems ==
  (Listing /\ Returned /\ limit # None /\ total > limit
     /\ Len(received) > limit /\ largest_page <= limit)
    => result = Ok(SubSeq(received, 1, limit))

\* C3: the listing cannot loop forever: whatever the server answers, the
\* call eventually returns a result or an error.
C3_EventuallyReturns == Listing => <>(pc \in {"done", "error"})

\* C4: when the server says has_more = true on every page, the listing
\* still stops at the page at which the offset reaches the reported total,
\* and requests no further page.
C4_TotalStopsLoop ==
  (Listing /\ pages_fetched >= 1 /\ has_more /\ current_offset >= total)
    => (Returned /\ inflight = {} /\ result = Ok(all_objects))

C4_Witness ==
  /\ Listing /\ Returned /\ limit = None
  /\ has_more /\ pages_fetched >= 2
  /\ current_offset = total /\ total >= 2
  /\ inflight = {}

\* C5: a failed page fetch, on the first page or a later one, ends the
\* listing with that error: no request is outstanding or issued again, and
\* the objects of the earlier pages are not returned.
C5_ErrorAborts ==
  (Listing /\ failures > 0)
    => /\ pc = "error"
       /\ failures = 1
       /\ inflight = {}
       /\ result.status = "transport"
       /\ result.objects = <<>>

C5_Witness ==
  /\ Listing /\ failures = 1 /\ pc = "error"
  /\ pages_fetched >= 1 /\ Len(all_objects) >= 2
  /\ result.objects = <<>>

\* C6: an empty first page with has_more = false ends the listing with an
\* empty result after that one page, for every limit and reported total; a
\* listing that has returned takes no further step.
C6_EmptyFirstPage ==
  /\ []((Listing /\ pages_fetched = 1 /\ received = <<>> /\ ~has_more /\ failures = 0)
          => (Returned /\ inflight = {} /\ result = Ok(<<>>)))
  /\ [][pc # "done"]_vars

C6_Witness ==
  /\ Listing /\ Returned /\ pages_fetched = 1
  /\ received = <<>> /\ ~has_more
  /\ limit # None /\ limit > 0 /\ total > 0
  /\ result = Ok(<<>>)

\* C7: a listing request is a GET of /v1/spaces/{space_id}/objects with
\* limit and offset appended only when present, limit first; list_objects
\* carries neither; the pagination loop carries its limit and its offset.
C7_ListUrl ==
  \A r \in inflight :
    /\ command = "list_objects" => r = Request("GET", ListingPath)
    /\ command = "list_objects_with_pagination"
         => r = Request("GET", ExpectedListUrl(limit, offset))
    /\ Listing => r = Request("GET", ExpectedListUrl(limit, last_offset))

C7_Witness ==
  /\ command = "list_objects_with_pagination"
  /\ limit # None /\ offset # None /\ limit # offset
  /\ inflight = {Request("GET", ExpectedListUrl(limit, offset))}

\* one of the three stop conditions holds on the page just received
StopCondition ==
  \/ limit # None /\ Len(all_objects) >= limit
  \/ ~has_more
  \/ current_offset >= total

\* C8: the listing always requests a first page; after each page received
\* it requests another page exactly when none of the three stop conditions
\* holds; no request is outstanding once the accumulated count has reached
\* the limit; with limit 0 exactly one page is requested.
C8_StopExactly ==
  /\ []((Listing /\ Returned) => pages_fetched >= 1)
  /\ [][(Listing /\ pc = "await" /\ pc' # "error")
          => /\ (pc' = "await" /\ inflight' # {}) <=> ~StopCondition'
             /\ (pc' = "done" /\ inflight' = {}) <=> StopCondition']_vars
  /\ []((Listing /\ pages_fetched >= 1 /\ limit # None /\ Len(all_objects) >= limit)
          => inflight = {})
  /\ []((Listing /\ limit = 0 /\ pc # "start")
          => (pages_fetched <= 1 /\ (Returned => pages_fetched = 1)))

C8_Witness ==
  /\ Listing /\ pc = "await" /\ inflight # {}
  /\ pages_fetched = 2 /\ limit # None
  /\ Len(all_objects) = limit - 1

\* C9: page requests go out one at a time; the first carries offset 0 and
\* every later one the number of objects received so far, which is the
\* length of the accumulated result; the offsets never decrease.
C9_SequentialOffsets ==
  /\ [](Cardinality(inflight) <= 1)
  /\ [](Listing =>
          /\ Len(all_objects) = Len(received)
          /\ \A r \in inflight :
               /\ r.url = ExpectedListUrl(limit, Len(received))
               /\ last_offset = Len(received)
               /\ pages_fetched = 0 => last_offset = 0)
  /\ [][Listing => last_offset' >= last_offset]_vars

C9_Witness ==
  /\ Listing /\ pc = "await" /\ pages_fetched >= 2
  /\ last_offset >= 3
  /\ inflight = {Request("GET", ExpectedListUrl(limit, Len(received)))}

\* the JSON texts over Chars of at most n characters, generated from the
\* grammar: value = digits | {} | [] | [ value (, value)* ]
RECURSIVE JsonTexts(_), JsonElems(_)
JsonTexts(n) ==
  IF n <= 0 THEN {}
  ELSE {[i \in 1..k |-> "1"] : k \in 1..n}
       \cup (IF n >= 2 THEN {<<"{", "}">>, <<"[", "]">>} ELSE {})
       \cup {<<"[">> \o body \o <<"]">> : body \in JsonElems(n - 2)}

JsonElems(n) ==
  IF n <= 0 THEN {}
  ELSE JsonTexts(n)
       \cup {t \in {v \o <<",">> \o rest : v \in JsonTexts(n - 2), rest \in JsonElems(n - 2)} :
               Len(t) <= n}

\* C10: a CLI command that fails locally sends nothing: without a stored
\* credential it fails before any client call, and a --properties text of
\* create or update that is not JSON fails as a parse error before the
\* request is issued.
C10_LocalFailureSendsNothing ==
  /\ (command \in CliCommands /\ api_key # "some")
       => /\ ~sent /\ inflight = {}
          /\ pc \in {"start", "error"}
          /\ pc = "error" =>
               result = Err(IF api_key = "none" THEN "auth" ELSE "config")
  /\ (command \in {"create", "update"} /\ api_key = "some"
        /\ properties.present /\ properties.text \notin JsonTexts(MaxPropsLen))
       => /\ ~sent /\ inflight = {}
          /\ pc \in {"start", "error"}
          /\ pc = "error" => result = Err("parse")

C10_Witness ==
  /\ command = "update" /\ api_key = "some"
  /\ pc = "error" /\ result = Err("parse")
  /\ Len(properties.text) >= 2 /\ ~sent

====
